---- MODULE Spec2Model ----
(***************************************************************************)
(* A model of the vic3 KeyValues parser: the token stream (token.rs), the  *)
(* value tree (value.rs), the scalar resolver (parse_simple_value.rs), the *)
(* value parser (parse_next_value.rs), the array/block parser              *)
(* (parse_array.rs) and the program/object parser (parse_program.rs).      *)
(*                                                                         *)
(* The recursive descent is run on an explicit stack of frames, one step   *)
(* per call of lexer.next().  The lexer is the environment: each call      *)
(* yields the next token of the source, a lex error, or end-of-stream; the *)
(* tokens handed out so far are kept in `consumed`.  A span is the index   *)
(* of a token in the source (1-based); 0 is Span::default() (0..0), which  *)
(* is also lexer.span() before the first token.                            *)
(***************************************************************************)
EXTENDS Integers, Sequences, FiniteSets, TLC

\* The longest token prefix the lexer hands out.
MaxLen == 6
\* The longest vector handed to flatten_array.
MaxObjects == 3
\* The longest token prefix the lexer hands out to the nested-block runs.
MaxNestedLen == 11

VARIABLES
    entry,      \* the function under test: "parse_program" | "parse_array" | "flatten_array"
    consumed,   \* the tokens lexer.next() has returned so far
    eof,        \* lexer.next() has returned None
    stack,      \* the active parse_object_contents / parse_array invocations
    pc,         \* which function reads the next token
    result,     \* what the entry function returned
    last_ret,   \* history: the latest return of a parse_array invocation
    objects     \* flatten_array's argument

vars == <<entry, consumed, eof, stack, pc, result, last_ret, objects>>

----------------------------------------------------------------------------
(* token.rs: the tokens.  A token is its kind and its text.               *)

Tok(kind, text) == [kind |-> kind, text |-> text]

\* The lexer's Some(Err(_)) item (an input matching no rule) and its None.
LexError == Tok("Error", "")
EndOfStream == Tok("None", "")

Identifiers == {"a", "b"}

ScalarTokens ==
    {Tok("Bool", "true"), Tok("Null", "null"), Tok("Float", "1.5"),
     Tok("Integer", "1"), Tok("String", "s")}
        \cup {Tok("Any", s) : s \in Identifiers}

StructuralTokens ==
    {Tok("BraceOpen", "{"), Tok("BraceClose", "}"), Tok("EqualSign", "=")}

CommentTokens == {Tok("Comment1", "#"), Tok("Comment2", "/*")}

\* Everything lexer.next() can yield as Some(_).
Tokens == ScalarTokens \cup StructuralTokens \cup CommentTokens \cup {LexError}

----------------------------------------------------------------------------
(* value.rs: the value tree.  Every value has the same three fields: its   *)
(* tag, its text (scalars) and its elements (Array: values; Object: the    *)
(* entries, in iteration order).                                           *)

Scalar(tag, text) == [t |-> tag, s |-> text, e |-> <<>>]
Array(elems) == [t |-> "Array", s |-> "", e |-> elems]
Object(entries) == [t |-> "Object", s |-> "", e |-> entries]
Empty == [t |-> "Empty", s |-> "", e |-> <<>>]
Pair(k, v) == [k |-> k, v |-> v]

IsObject(v) == v.t = "Object"

\* Option<&str>: None is <<>>, Some(s) is <<s>>.
None == <<>>
Some(s) == <<s>>

\* Result<Value>: Ok(value), Err((message, span)), or a panic.  `tok` and
\* `key` are the {:?} arguments of parse_object_contents' message.
NoResult == [st |-> "none", value |-> Empty, msg |-> "", span |-> 0,
             tok |-> LexError, key |-> None]
Ok(v) == [NoResult EXCEPT !.st = "ok", !.value = v]
Err(m, sp) == [NoResult EXCEPT !.st = "err", !.msg = m, !.span = sp]
Panic == [NoResult EXCEPT !.st = "panic"]

----------------------------------------------------------------------------
(* ordered_hash_map::OrderedHashMap, as a sequence of entries with unique  *)
(* keys.                                                                   *)

KeyIndex(map, k) ==
    IF \E i \in 1..Len(map) : map[i].k = k
    THEN CHOOSE i \in 1..Len(map) : map[i].k = k
    ELSE 0

\* insert: a present key keeps its position and takes the new value.
MapInsert(map, k, v) ==
    IF KeyIndex(map, k) = 0
    THEN Append(map, Pair(k, v))
    ELSE [map EXCEPT ![KeyIndex(map, k)] = Pair(k, v)]

RECURSIVE MapExtend(_, _)
MapExtend(map, entries) ==
    IF entries = <<>> THEN map
    ELSE MapExtend(MapInsert(map, Head(entries).k, Head(entries).v), Tail(entries))

MapFromIter(entries) == MapExtend(<<>>, entries)

----------------------------------------------------------------------------
(* parse_simple_value.rs                                                   *)

parse_simple_value(token) ==
    CASE token.kind = "Bool" -> Ok(Scalar("Bool", token.text))
      [] token.kind = "Null" -> Ok(Scalar("Null", token.text))
      [] token.kind = "Float" -> Ok(Scalar("Float", token.text))
      [] token.kind = "Integer" -> Ok(Scalar("Integer", token.text))
      [] token.kind = "String" -> Ok(Scalar("String", token.text))
      [] token.kind = "Any" -> Ok(Scalar("String", token.text))
      [] OTHER -> Err("unexpected token when expecting simple value", 0)

----------------------------------------------------------------------------
(* parse_array.rs: flatten_array                                           *)

MixedError == Err("array containing object is mixed with non-object value", 0)

\* A flatten_array whose loop assigns each object to the map instead of
\* extending the map with it.
RECURSIVE flatten_loop_assigning(_, _)
flatten_loop_assigning(ordered_map, objs) ==
    IF objs = <<>> THEN Ok(Object(ordered_map))
    ELSE IF IsObject(Head(objs))
         THEN flatten_loop_assigning(Head(objs).e, Tail(objs))
         ELSE MixedError

RECURSIVE flatten_loop(_, _)
flatten_loop(ordered_map, objs) ==
    IF objs = <<>> THEN Ok(Object(ordered_map))
    ELSE IF IsObject(Head(objs))
         THEN flatten_loop(MapExtend(ordered_map, Head(objs).e), Tail(objs))
         ELSE MixedError

flatten_array(objs) == flatten_loop(<<>>, objs)

----------------------------------------------------------------------------
(* The call stack.  A frame is one invocation of parse_object_contents or  *)
(* of parse_array with its locals; `key` is the key a value is being       *)
(* parsed for (parse_object_contents' `key`, parse_any_token_in_array's    *)
(* `token_value`).                                                         *)

ObjectFrame ==
    [fn |-> "object", span |-> 0, variables |-> <<>>, current_key |-> None,
     key |-> None, array |-> <<>>]

ArrayFrame(span) ==
    [fn |-> "array", span |-> span, variables |-> <<>>, current_key |-> None,
     key |-> None, array |-> <<>>]

Top(stk) == stk[Len(stk)]
Pop(stk) == SubSeq(stk, 1, Len(stk) - 1)
SetTop(stk, f) == [stk EXCEPT ![Len(stk)] = f]

NoReturn == [set |-> FALSE, from |-> 0, to |-> 0, res |-> NoResult]
Returned(f, to, res) == [set |-> TRUE, from |-> f.span, to |-> to, res |-> res]

\* A configuration of the parser: what a step leaves behind.
Config(stk, p, res, ret) == [stack |-> stk, pc |-> p, result |-> res, ret |-> ret]

\* The entry function returns `res`.
Finish(res, ret) == Config(<<>>, "done", res, ret)

\* A value parsed for the frame on top of `stk` reaches it:
\*   parse_program.rs:39-40   variables.push((key, value))
\*   parse_array.rs:73-76,41  array.push(Object{token_value: value})
\*   parse_array.rs:34-35     array.push(sub_array)
Deliver(stk, v, ret) ==
    LET f == Top(stk) IN
    IF f.fn = "object"
    THEN Config(SetTop(stk, [f EXCEPT !.variables = Append(@, Pair(f.key[1], v)),
                                      !.key = None]),
                "object", NoResult, ret)
    ELSE IF f.key # None
    THEN Config(SetTop(stk, [f EXCEPT
                    !.array = Append(@, Object(MapFromIter(<<Pair(f.key[1], v)>>))),
                    !.key = None]),
                "array", NoResult, ret)
    ELSE Config(SetTop(stk, [f EXCEPT !.array = Append(@, v)]), "array", NoResult, ret)

\* The parse_array invocation on top of `stk` returns `res`, having read
\* the tokens up to index `to`.  An Err goes up through every `?`.
ArrayReturn(stk, res, to) ==
    LET ret == Returned(Top(stk), to, res) IN
    IF res.st # "ok" \/ Len(stk) = 1
    THEN Finish(res, ret)
    ELSE Deliver(Pop(stk), res.value, ret)

\* An Err raised in parse_next_value or parse_any_token_in_array: the
\* parse_array that called them, if any, returns it.
Raise(stk, err, to, ret) ==
    IF Top(stk).fn = "array" THEN ArrayReturn(stk, err, to) ELSE Finish(err, ret)

----------------------------------------------------------------------------
(* parse_program.rs: parse_object_contents, one iteration of its loop.     *)
(* `item` is what lexer.next() returned and `sp` is lexer.span() then.     *)

\* A parse_object_contents whose identifier arm lacks the guard
\* `if current_key.is_none()`: a second identifier replaces the pending key.
object_contents_step_unguarded(stk, item, sp, ret) ==
    LET f == Top(stk) IN
    IF item = EndOfStream
    THEN Finish(Ok(Object(f.variables)), ret)
    ELSE IF item.kind = "BraceClose"
    THEN IF f.current_key # None
         THEN Finish(Err("unexpected '}', expected '=' followed by value after key", sp),
                     ret)
         ELSE Finish(Ok(Object(f.variables)), ret)
    ELSE IF item.kind = "Any"
    THEN Config(SetTop(stk, [f EXCEPT !.current_key = Some(item.text)]),
                "object", NoResult, ret)
    ELSE IF item.kind = "EqualSign" /\ f.current_key # None
    THEN Config(SetTop(stk, [f EXCEPT !.key = f.current_key, !.current_key = None]),
                "next_value", NoResult, ret)
    ELSE IF item.kind = "Comment1"
    THEN Config(stk, "object", NoResult, ret)
    ELSE IF item = LexError
    THEN Finish(Panic, ret)
    ELSE Finish([Err("unexpected token in object context", sp)
                    EXCEPT !.tok = item, !.key = f.current_key], ret)

object_contents_step(stk, item, sp, ret) ==
    LET f == Top(stk) IN
    IF item = EndOfStream
    THEN Finish(Ok(Object(f.variables)), ret)
    ELSE IF item.kind = "BraceClose"
    THEN IF f.current_key # None
         THEN Finish(Err("unexpected '}', expected '=' followed by value after key", sp),
                     ret)
         ELSE Finish(Ok(Object(f.variables)), ret)
    ELSE IF item.kind = "Any" /\ f.current_key = None
    THEN Config(SetTop(stk, [f EXCEPT !.current_key = Some(item.text)]),
                "object", NoResult, ret)
    ELSE IF item.kind = "EqualSign" /\ f.current_key # None
    THEN Config(SetTop(stk, [f EXCEPT !.key = f.current_key, !.current_key = None]),
                "next_value", NoResult, ret)
    ELSE IF item.kind = "Comment1"
    THEN Config(stk, "object", NoResult, ret)
    ELSE IF item = LexError
    THEN Finish(Panic, ret)
    ELSE Finish([Err("unexpected token in object context", sp)
                    EXCEPT !.tok = item, !.key = f.current_key], ret)

----------------------------------------------------------------------------
(* parse_next_value.rs                                                     *)

next_value_step(stk, item, sp, ret) ==
    IF item # EndOfStream /\ item.kind \in {"String", "Float", "Integer"}
    THEN Deliver(stk, Scalar(item.kind, item.text), ret)
    ELSE IF item # EndOfStream /\ item.kind = "Any"
    THEN Deliver(stk, Scalar("String", item.text), ret)
    ELSE IF item # EndOfStream /\ item.kind = "BraceOpen"
    THEN Config(Append(stk, ArrayFrame(sp)), "array", NoResult, ret)
    ELSE IF item # EndOfStream /\ item.kind = "BraceClose"
    THEN Raise(stk, Err("unexpected '}' when expecting value", sp), sp, ret)
    ELSE Raise(stk, Err("expected value", sp),
               IF item = EndOfStream THEN sp - 1 ELSE sp, ret)

----------------------------------------------------------------------------
(* parse_array.rs: parse_array, one iteration of its loop.                 *)

HasObject(array) == \E i \in 1..Len(array) : IsObject(array[i])

\* A closing brace that flattens whatever the array holds.
close_array_always_flattening(array) == flatten_array(array)

\* parse_array.rs:24-31, the result at the closing brace.
close_array(array) ==
    IF HasObject(array) THEN flatten_array(array) ELSE Ok(Array(array))

array_step(stk, item, sp, ret) ==
    LET f == Top(stk) IN
    IF item = EndOfStream
    THEN ArrayReturn(stk, Err("unmatched opening bracket", f.span), sp - 1)
    ELSE IF item.kind = "BraceClose"
    THEN ArrayReturn(stk, close_array(f.array), sp)
    ELSE IF item.kind = "BraceOpen"
    THEN Config(Append(stk, ArrayFrame(sp)), "array", NoResult, ret)
    ELSE IF item.kind = "Any"
    THEN Config(SetTop(stk, [f EXCEPT !.key = Some(item.text)]),
                "any_token", NoResult, ret)
    ELSE IF item # LexError
    THEN IF parse_simple_value(item).st = "ok"
         THEN Config(SetTop(stk, [f EXCEPT
                         !.array = Append(@, parse_simple_value(item).value)]),
                     "array", NoResult, ret)
         ELSE ArrayReturn(stk, parse_simple_value(item), sp)
    ELSE ArrayReturn(stk, Err("failed to parse token in array ", sp), sp)

(* parse_array.rs: parse_any_token_in_array and the arm of parse_array     *)
(* that takes its result (lines 38-48).                                    *)

\* A parse_any_token_in_array that answers Single, not EndArray, for an
\* identifier followed by `}`: the identifier is pushed and the loop goes on.
any_token_step_not_ending(stk, item, sp, ret) ==
    LET f == Top(stk)
        token_value == f.key[1]
    IN
    IF item # EndOfStream /\ item.kind = "EqualSign"
    THEN Config(stk, "next_value", NoResult, ret)
    ELSE IF item # EndOfStream /\ item.kind = "BraceClose"
    THEN Config(SetTop(stk, [f EXCEPT
                    !.array = Append(@, Scalar("String", token_value)),
                    !.key = None]),
                "array", NoResult, ret)
    ELSE IF item # EndOfStream /\ item # LexError
    THEN IF parse_simple_value(item).st = "ok"
         THEN Config(SetTop(stk, [f EXCEPT
                         !.array = @ \o <<Scalar("String", token_value),
                                          parse_simple_value(item).value>>,
                         !.key = None]),
                     "array", NoResult, ret)
         ELSE ArrayReturn(stk, parse_simple_value(item), sp)
    ELSE ArrayReturn(stk, Err("unexpected token after identifier in array", sp),
                     IF item = EndOfStream THEN sp - 1 ELSE sp)

any_token_step(stk, item, sp, ret) ==
    LET f == Top(stk)
        token_value == f.key[1]
    IN
    IF item # EndOfStream /\ item.kind = "EqualSign"
    THEN Config(stk, "next_value", NoResult, ret)
    ELSE IF item # EndOfStream /\ item.kind = "BraceClose"
    THEN ArrayReturn(stk, Ok(Array(Append(f.array, Scalar("String", token_value)))), sp)
    ELSE IF item # EndOfStream /\ item # LexError
    THEN IF parse_simple_value(item).st = "ok"
         THEN Config(SetTop(stk, [f EXCEPT
                         !.array = @ \o <<Scalar("String", token_value),
                                          parse_simple_value(item).value>>,
                         !.key = None]),
                     "array", NoResult, ret)
         ELSE ArrayReturn(stk, parse_simple_value(item), sp)
    ELSE ArrayReturn(stk, Err("unexpected token after identifier in array", sp),
                     IF item = EndOfStream THEN sp - 1 ELSE sp)

----------------------------------------------------------------------------
(* The lexer and the steps.                                                *)

\* What lexer.next() may return: None, or one more item of a source of at
\* most MaxLen items.
LexerItems == IF Len(consumed) < MaxLen THEN Tokens \cup {EndOfStream} ELSE {EndOfStream}

\* lexer.span() after the call: the item's index; after None, one past the
\* last item.
LexerSpan == Len(consumed) + 1

Advance(item, cfg) ==
    /\ consumed' = IF item = EndOfStream THEN consumed ELSE Append(consumed, item)
    /\ eof' = (item = EndOfStream)
    /\ stack' = cfg.stack
    /\ pc' = cfg.pc
    /\ result' = cfg.result
    /\ last_ret' = cfg.ret
    /\ UNCHANGED <<entry, objects>>

ObjectStep ==
    /\ pc = "object"
    /\ \E item \in LexerItems :
          Advance(item, object_contents_step(stack, item, LexerSpan, last_ret))

NextValueStep ==
    /\ pc = "next_value"
    /\ \E item \in LexerItems :
          Advance(item, next_value_step(stack, item, LexerSpan, last_ret))

ArrayStep ==
    /\ pc = "array"
    /\ \E item \in LexerItems :
          Advance(item, array_step(stack, item, LexerSpan, last_ret))

AnyTokenStep ==
    /\ pc = "any_token"
    /\ \E item \in LexerItems :
          Advance(item, any_token_step(stack, item, LexerSpan, last_ret))

\* parse_program(source) on a fresh lexer, or parse_array(lexer) on a fresh
\* lexer as the unit tests call it.
Init ==
    /\ entry \in {"parse_program", "parse_array"}
    /\ consumed = <<>>
    /\ eof = FALSE
    /\ stack = IF entry = "parse_program" THEN <<ObjectFrame>> ELSE <<ArrayFrame(0)>>
    /\ pc = IF entry = "parse_program" THEN "object" ELSE "array"
    /\ result = NoResult
    /\ last_ret = NoReturn
    /\ objects = <<>>

Next == ObjectStep \/ NextValueStep \/ ArrayStep \/ AnyTokenStep

Spec == Init /\ [][Next]_vars

----------------------------------------------------------------------------
(* parse_array on longer sources of identifiers, `=` and braces: blocks of *)
(* `key = value` pairs nested in a block, as in `{ a = b } { b = a } }`.   *)

NestedTokens ==
    {Tok("Any", s) : s \in Identifiers}
        \cup {Tok("EqualSign", "="), Tok("BraceOpen", "{"), Tok("BraceClose", "}")}

\* The sources are MaxNestedLen tokens long: the lexer returns None after
\* the last of them (shorter sources are the runs of Spec).
NestedItems ==
    IF Len(consumed) < MaxNestedLen THEN NestedTokens ELSE {EndOfStream}

NestedArrayStep ==
    /\ pc = "array"
    /\ \E item \in NestedItems :
          Advance(item, array_step(stack, item, LexerSpan, last_ret))

NestedAnyTokenStep ==
    /\ pc = "any_token"
    /\ \E item \in NestedItems :
          Advance(item, any_token_step(stack, item, LexerSpan, last_ret))

NestedNextValueStep ==
    /\ pc = "next_value"
    /\ \E item \in NestedItems :
          Advance(item, next_value_step(stack, item, LexerSpan, last_ret))

NestedInit ==
    /\ entry = "parse_array"
    /\ consumed = <<>>
    /\ eof = FALSE
    /\ stack = <<ArrayFrame(0)>>
    /\ pc = "array"
    /\ result = NoResult
    /\ last_ret = NoReturn
    /\ objects = <<>>

NestedNext == NestedArrayStep \/ NestedAnyTokenStep \/ NestedNextValueStep

SpecNested == NestedInit /\ [][NestedNext]_vars

----------------------------------------------------------------------------
(* flatten_array as a function of its argument alone (the unit tests of    *)
(* parse_array.rs call it so).                                             *)

FlattenKeys == {"a", "b"}
FlattenScalars == {Scalar("Integer", "1"), Scalar("String", "s")}

\* Every OrderedHashMap over FlattenKeys: entries with pairwise distinct keys.
FlattenMaps ==
    {<<>>}
      \cup {<<Pair(k, v)>> : k \in FlattenKeys, v \in FlattenScalars}
      \cup {<<Pair(k[1], v[1]), Pair(k[2], v[2])>> :
                k \in {x \in FlattenKeys \X FlattenKeys : x[1] # x[2]},
                v \in FlattenScalars \X FlattenScalars}

FlattenElements == {Object(m) : m \in FlattenMaps} \cup FlattenScalars

FlattenInputs == UNION {[1..n -> FlattenElements] : n \in 0..MaxObjects}

FlattenInit ==
    /\ entry = "flatten_array"
    /\ objects \in FlattenInputs
    /\ pc = "flatten"
    /\ consumed = <<>>
    /\ eof = FALSE
    /\ stack = <<>>
    /\ result = NoResult
    /\ last_ret = NoReturn

FlattenStep ==
    /\ pc = "flatten"
    /\ result' = flatten_array(objects)
    /\ pc' = "done"
    /\ UNCHANGED <<entry, consumed, eof, stack, last_ret, objects>>

FlattenNext == FlattenStep

SpecFlatten == FlattenInit /\ [][FlattenNext]_vars

----------------------------------------------------------------------------
(* The properties.                                                         *)

Done == pc = "done"
Last(seq) == seq[Len(seq)]

\* The ordered-map reading of a sequence of entries: one entry per key, at
\* the position of the key's first occurrence, with the value of its last.
FirstOccurrences(entries) ==
    {i \in 1..Len(entries) : \A j \in 1..(i - 1) : entries[j].k # entries[i].k}

LastValue(entries, k) ==
    entries[CHOOSE i \in 1..Len(entries) :
                /\ entries[i].k = k
                /\ \A j \in (i + 1)..Len(entries) : entries[j].k # k].v

RECURSIVE Concat(_)
Concat(seqs) == IF seqs = <<>> THEN <<>> ELSE Head(seqs) \o Concat(Tail(seqs))

\* The n-th smallest member of a set of naturals.
RECURSIVE Nth(_, _)
Nth(S, n) ==
    LET m == CHOOSE x \in S : \A y \in S : x <= y
    IN IF n = 1 THEN m ELSE Nth(S \ {m}, n - 1)

UniqueLastWins(entries) ==
    [n \in 1..Cardinality(FirstOccurrences(entries)) |->
        LET k == entries[Nth(FirstOccurrences(entries), n)].k
        IN Pair(k, LastValue(entries, k))]

\* A source of `identifier = scalar` pairs, and the entries it spells.
PairsOnly(toks) ==
    /\ Len(toks) % 3 = 0
    /\ \A i \in 1..Len(toks) :
          CASE i % 3 = 1 -> toks[i].kind = "Any"
            [] i % 3 = 2 -> toks[i].kind = "EqualSign"
            [] OTHER -> toks[i] \in ScalarTokens

PairsOf(toks) ==
    [n \in 1..(Len(toks) \div 3) |->
        Pair(toks[3 * n - 2].text, parse_simple_value(toks[3 * n]).value)]

\* C1: whenever parse_program returns an Object for a source made only of
\* `identifier = scalar` pairs, the Object has one entry per key, in order
\* of first occurrence, each with the value of the key's last occurrence.
C1_PairsYieldUniqueKeyObject ==
    (/\ entry = "parse_program" /\ Done /\ eof
     /\ PairsOnly(consumed)
     /\ result.st = "ok")
        => result.value = Object(UniqueLastWins(PairsOf(consumed)))

\* C2: a block that parse_array closes successfully is never an Array that
\* holds an Object element.
C2_ClosedBlockNeverMixedArray ==
    (/\ last_ret.set
     /\ last_ret.res.st = "ok"
     /\ last_ret.res.value.t = "Array")
        => ~HasObject(last_ret.res.value.e)

\* C3: when the token stream ends inside a block opened by `{`, parse_array
\* fails with "unmatched opening bracket" at the span of that `{`.
C3_EndOfStreamInBlockIsUnmatched ==
    (/\ eof
     /\ last_ret.set
     /\ last_ret.res.st # "ok"
     /\ last_ret.from >= 1)
        => /\ last_ret.res.msg = "unmatched opening bracket"
           /\ last_ret.res.span = last_ret.from
           /\ consumed[last_ret.from].kind = "BraceOpen"

\* C4: at top level, end-of-stream with a pending key fails with "expected
\* value after key"; end-of-stream in AwaitingKey returns the accumulated
\* object.
C4_EndOfStreamWithPendingKeyFails ==
    [][(pc = "object" /\ eof')
          => IF Top(stack).current_key # None
             THEN result'.st = "err" /\ result'.msg = "expected value after key"
             ELSE result' = Ok(Object(Top(stack).variables))]_vars

\* The braces of `toks` never close more than they opened.
RECURSIVE Depth(_)
Depth(toks) ==
    IF toks = <<>> THEN 0
    ELSE Depth(SubSeq(toks, 1, Len(toks) - 1))
            + (CASE Last(toks).kind = "BraceOpen" -> 1
                 [] Last(toks).kind = "BraceClose" -> -1
                 [] OTHER -> 0)

NoStrayClose(toks) == \A n \in 1..Len(toks) : Depth(SubSeq(toks, 1, n)) >= 0

\* C5: parse_program returns success only after the lexer is exhausted, and
\* never for a source with a `}` that closes no block.
C5_ProgramSuccessReadsWholeSource ==
    (entry = "parse_program" /\ Done /\ result.st = "ok")
        => eof /\ NoStrayClose(consumed)

\* C6: after `key =`, a scalar token of any kind is accepted and the value
\* passed on for the key is parse_simple_value's value for that token.
C6_NextValueAgreesWithSimpleValue ==
    [][(/\ pc = "next_value"
        /\ consumed' # consumed
        /\ Last(consumed') \in ScalarTokens)
          => /\ result'.st = "none"
             /\ stack' = Deliver(stack, parse_simple_value(Last(consumed')).value,
                                 last_ret).stack]_vars

\* The tokens a parse_array invocation read before the one it returned at.
BlockBody(ret) == SubSeq(consumed, ret.from + 1, ret.to - 1)

\* The invocation returned at a `}`.
ClosedAt(ret) == ret.to > ret.from /\ consumed[ret.to].kind = "BraceClose"

\* C7: a block with no elements, `{` directly followed by `}`, is Empty.
C7_EmptyBlockIsEmpty ==
    (/\ last_ret.set
     /\ last_ret.to = last_ret.from + 1
     /\ ClosedAt(last_ret))
        => last_ret.res = Ok(Empty) /\ Empty # Array(<<>>)

AllObjects(objs) == \A i \in 1..Len(objs) : IsObject(objs[i])
EntriesOf(objs) == Concat([i \in 1..Len(objs) |-> objs[i].e])

\* C8: flatten_array of a vector of Objects is the Object of their entries
\* read as an ordered map: keys in order of first occurrence, a duplicate
\* key with its later value at its earlier position.  One Object comes back
\* unchanged; two single-key Objects with distinct keys give both keys in
\* input order.
C8_FlattenMergesInOrder ==
    (entry = "flatten_array" /\ Done /\ AllObjects(objects))
        => /\ result = Ok(Object(UniqueLastWins(EntriesOf(objects))))
           /\ Len(objects) = 1 => result.value = objects[1]
           /\ (/\ Len(objects) = 2
               /\ Len(objects[1].e) = 1 /\ Len(objects[2].e) = 1
               /\ objects[1].e[1].k # objects[2].e[1].k)
                 => result.value.e = <<objects[1].e[1], objects[2].e[1]>>

\* C8's case: a key of the first Object comes again in a later one, with
\* another value, after a key the first Object does not have.
C8_Witness ==
    /\ entry = "flatten_array" /\ Done
    /\ Len(objects) = 3 /\ AllObjects(objects)
    /\ Len(objects[1].e) = 2
    /\ Len(objects[3].e) = 1
    /\ objects[3].e[1].k = objects[1].e[1].k
    /\ objects[3].e[1].v # objects[1].e[1].v
    /\ result.st = "ok"
    /\ Len(result.value.e) = 2

AllScalar(toks) == \A i \in 1..Len(toks) : toks[i] \in ScalarTokens
SimpleValues(toks) == [i \in 1..Len(toks) |-> parse_simple_value(toks[i]).value]

\* C9: a block of one or more scalar tokens closed by `}` is the Array of
\* their parse_simple_value values, one per token, in source order, whether
\* the block is nested or the whole input of parse_array; parse_array does
\* not fail on a scalar token.
C9_ScalarBlockIsArrayOfTokens ==
    /\ (/\ last_ret.set
        /\ ClosedAt(last_ret)
        /\ BlockBody(last_ret) # <<>>
        /\ AllScalar(BlockBody(last_ret)))
          => last_ret.res = Ok(Array(SimpleValues(BlockBody(last_ret))))
    /\ (/\ entry = "parse_array"
        /\ Len(consumed) > 1
        /\ Last(consumed).kind = "BraceClose"
        /\ AllScalar(SubSeq(consumed, 1, Len(consumed) - 1)))
          => /\ Done
             /\ result = Ok(Array(SimpleValues(SubSeq(consumed, 1, Len(consumed) - 1))))
    /\ (last_ret.set /\ last_ret.res.st # "ok" /\ ~eof)
          => ~AllScalar(SubSeq(consumed, last_ret.from + 1, last_ret.to))

\* C9's case: an odd number of tokens with identifiers first and last; the
\* first is followed by a scalar, the last by the closing `}`.
C9_Witness ==
    /\ last_ret.set
    /\ last_ret.res.st = "ok"
    /\ ClosedAt(last_ret)
    /\ AllScalar(BlockBody(last_ret))
    /\ LET body == BlockBody(last_ret) IN
          /\ Len(body) = 3
          /\ body[1].kind = "Any"
          /\ body[2].kind = "Integer"
          /\ body[3].kind = "Any"
          /\ Len(last_ret.res.value.e) = 3

\* C10: in a block, an identifier followed by a nested `{`, a lex failure
\* or end-of-stream fails with "unexpected token after identifier in array".
C10_AfterIdentifierMessage ==
    [][(/\ pc = "any_token"
        /\ \/ eof'
           \/ /\ consumed' # consumed
              /\ Last(consumed').kind \in {"BraceOpen", "Error"})
          => /\ result'.st = "err"
             /\ result'.msg = "unexpected token after identifier in array"]_vars

\* Where the lexer stands: the index of the item read last, or one past the
\* last token once it has returned None.
FaultPosition == IF eof THEN Len(consumed) + 1 ELSE Len(consumed)

\* C11: an error of parse_program carries a span that locates the fault: the
\* token at which it was detected or the opening `{` of the block that
\* failed; never the default span 0..0.
C11_ErrorSpanLocatesFault ==
    (entry = "parse_program" /\ result.st = "err")
        => /\ result.span >= 1
           /\ \/ result.span = FaultPosition
              \/ /\ last_ret.set
                 /\ last_ret.res = result
                 /\ result.span = last_ret.from
                 /\ consumed[last_ret.from].kind = "BraceOpen"

\* C12: once the lexer has reported a lex failure, the parse returns an
\* error value: it neither panics nor succeeds nor goes on.
C12_LexFailureIsAnError ==
    (consumed # <<>> /\ Last(consumed) = LexError) => result.st = "err"

\* One step of the program/object parser on a token (not a lex failure),
\* told by its state (a key pending or not) and the token.  With
\* `comment_skipped`, a Comment1 token is passed over in either state.
ObjectTransition(comment_skipped) ==
    LET f == Top(stack)
        tok == Last(consumed')
        awaiting_key == f.current_key = None
    IN
    IF awaiting_key /\ tok.kind = "Any"
    THEN /\ pc' = "object" /\ result' = NoResult
         /\ Top(stack').current_key = Some(tok.text)
         /\ Top(stack').variables = f.variables
    ELSE IF ~awaiting_key /\ tok.kind = "EqualSign"
    THEN /\ pc' = "next_value" /\ result' = NoResult
         /\ Top(stack').variables = f.variables
    ELSE IF awaiting_key /\ tok.kind = "BraceClose"
    THEN result' = Ok(Object(f.variables))
    ELSE IF comment_skipped /\ tok.kind = "Comment1"
    THEN pc' = "object" /\ result' = NoResult /\ stack' = stack
    ELSE /\ result'.st = "err"
         /\ result'.value = Empty
         /\ IF tok.kind = "BraceClose"
            THEN result'.msg = "unexpected '}', expected '=' followed by value after key"
            ELSE /\ result'.msg = "unexpected token in object context"
                 /\ result'.tok = tok
                 /\ result'.key = f.current_key

\* The value after `key =`: `}` is refused, and a value that comes back adds
\* one entry under the key and leaves no key pending; no other step changes
\* the entries.
ObjectValue ==
    /\ (/\ pc = "next_value" /\ Top(stack).fn = "object"
        /\ consumed' # consumed /\ Last(consumed').kind = "BraceClose")
          => result'.st = "err" /\ result'.msg = "unexpected '}' when expecting value"
    /\ (pc # "object" /\ pc' = "object")
          => /\ Len(stack') = 1
             /\ stack'[1].current_key = None
             /\ Len(stack'[1].variables) = Len(stack[1].variables) + 1
             /\ SubSeq(stack'[1].variables, 1, Len(stack[1].variables))
                    = stack[1].variables
             /\ Last(stack'[1].variables).k = stack[1].key[1]
    /\ (/\ entry = "parse_program" /\ stack' # <<>>
        /\ ~(pc # "object" /\ pc' = "object"))
          => stack'[1].variables = stack[1].variables

ObjectTokenRead ==
    pc = "object" /\ consumed' # consumed /\ Last(consumed') # LexError

FirstClose(toks) ==
    CHOOSE i \in 1..Len(toks) :
        /\ toks[i].kind = "BraceClose"
        /\ \A j \in 1..(i - 1) : toks[j].kind # "BraceClose"

\* `toks` is one or more blocks, each `{`, one or more `key = value` pairs, `}`.
RECURSIVE IsPairBlocks(_)
IsPairBlocks(toks) ==
    /\ toks # <<>>
    /\ toks[1].kind = "BraceOpen"
    /\ \E i \in 1..Len(toks) : toks[i].kind = "BraceClose"
    /\ LET j == FirstClose(toks) IN
          /\ j > 2
          /\ PairsOnly(SubSeq(toks, 2, j - 1))
          /\ j = Len(toks) \/ IsPairBlocks(SubSeq(toks, j + 1, Len(toks)))

\* The pairs of such blocks, in source order.
RECURSIVE BlocksPairs(_)
BlocksPairs(toks) ==
    IF toks = <<>> THEN <<>>
    ELSE LET j == FirstClose(toks) IN
            PairsOf(SubSeq(toks, 2, j - 1)) \o BlocksPairs(SubSeq(toks, j + 1, Len(toks)))

\* C14: a block of `key = value` pairs is the Object of its pairs, and a
\* block whose elements are all such blocks is one Object with the keys of
\* all inner blocks in source order.
C14_NestedPairBlocksFlatten ==
    (last_ret.set /\ ClosedAt(last_ret))
        => LET body == BlockBody(last_ret) IN
              /\ (body # <<>> /\ PairsOnly(body))
                    => last_ret.res = Ok(Object(UniqueLastWins(PairsOf(body))))
              /\ IsPairBlocks(body)
                    => last_ret.res = Ok(Object(UniqueLastWins(BlocksPairs(body))))

\* C14's case: two inner blocks of one pair each, with different keys.
C14_Witness ==
    /\ last_ret.set /\ ClosedAt(last_ret)
    /\ LET body == BlockBody(last_ret) IN
          /\ Len(body) = 10
          /\ IsPairBlocks(body)
          /\ body[2].text # body[7].text
          /\ last_ret.res.st = "ok"
          /\ IsObject(last_ret.res.value)
          /\ Len(last_ret.res.value.e) = 2
          /\ last_ret.res.value.e[1].k = body[2].text
          /\ last_ret.res.value.e[2].k = body[7].text

\* The parse_array invocations that are active.
ArrayDepth == Cardinality({i \in 1..Len(stack) : stack[i].fn = "array"})

\* C15: the number of simultaneously active parse_array invocations has a
\* bound that does not come from the source: it stays below the number of
\* tokens a source may hold.
C15_NestingDepthBounded == ArrayDepth < MaxLen

\* C16: a parse_array that returns success has read, from its first token
\* to its last, exactly up to the `}` that matches its opening: no prefix of
\* what it read closes more than it opens, and the whole closes one more.
C16_SuccessEndsAtMatchingClose ==
    (last_ret.set /\ last_ret.res.st = "ok")
        => LET toks == SubSeq(consumed, last_ret.from + 1, last_ret.to) IN
              /\ toks # <<>>
              /\ Last(toks).kind = "BraceClose"
              /\ Depth(toks) = -1
              /\ \A n \in 1..(Len(toks) - 1) : Depth(SubSeq(toks, 1, n)) >= 0

\* C16's case: a nested block `{ identifier }` returned on the early
\* return, and the enclosing parser has read a further token.
C16_Witness ==
    /\ last_ret.set /\ last_ret.res.st = "ok"
    /\ last_ret.from >= 1
    /\ last_ret.to = last_ret.from + 2
    /\ consumed[last_ret.from + 1].kind = "Any"
    /\ Len(consumed) > last_ret.to
    /\ pc \in {"array", "object"}

====
